---- MODULE Spec2Model ----
(***************************************************************************)
(* cpx (src/src/main.rs): a configuration-driven file copier.  One run of  *)
(* the program is main -> Cpx::execute -> calculate_file_list -> src_path  *)
(* -> dst_path -> execute_copy, ending by a normal return or by a panic.   *)
(***************************************************************************)
EXTENDS Integers, Sequences, FiniteSets, TLC

\* ---------------------------------------------------------------- bounds
\* number of names given on the command line (--tag and --file together)
MaxSelection == 2
\* number of file names in the file lists of all configured tags together
MaxTagFiles == 2
\* length of the source:destination argument, in characters
MaxSpecLen == 3

\* ------------------------------------------------------------ Option<T>
None == {}
Some(v) == {v}
IsSome(o) == o # {}
Unwrap(o) == CHOOSE v \in o : TRUE

Range(s) == {s[i] : i \in 1..Len(s)}
SeqsUpTo(S, n) == UNION {[1..k -> S] : k \in 0..n}

\* ------------------------------------------------------------- PathBuf
\* A path is its root flag and its components (PathBuf compares by components).
AbsPath(comps) == [abs |-> TRUE, comps |-> comps]
RelPath(comps) == [abs |-> FALSE, comps |-> comps]

\* Path::join: an absolute argument replaces the base, a relative one is appended.
PathJoin(base, p) ==
    IF p.abs THEN p ELSE [abs |-> base.abs, comps |-> base.comps \o p.comps]

FileInfo(p) == [relative_path |-> p]
PathInfo(p) == [path |-> p]
\* TagInfo.script_list is never read by the program.
TagInfo(fl) == [file_list |-> fl]

\* ------------------------------------------------------ str::split(':')
RECURSIVE SplitFrom(_, _)
\* cur is the segment being read; a colon closes it, the end of input closes the last
SplitFrom(s, cur) ==
    IF s = <<>> THEN <<cur>>
    ELSE IF Head(s) = ":" THEN <<cur>> \o SplitFrom(Tail(s), <<>>)
    ELSE SplitFrom(Tail(s), Append(cur, Head(s)))

Split(s) == SplitFrom(s, <<>>)

\* ------------------------------------------------ calculate_file_list
\* self.tag_list.get(t).and_then(|x| x.file_list.clone()), made a file name
\* of the tag name when the tag is unknown
TagFilesOrName(tl, t) ==
    IF t \in DOMAIN tl THEN tl[t].file_list ELSE Some(<<t>>)

\* self.tag_list.get(t).and_then(|x| x.file_list.clone())
TagFiles(tl, t) ==
    IF t \in DOMAIN tl THEN tl[t].file_list ELSE None

RECURSIVE ExpandTagsLast(_, _)
\* selected_files = item instead of selected_files.append(&mut item)
ExpandTagsLast(tl, ts) ==
    IF ts = <<>> THEN <<>>
    ELSE LET item == TagFiles(tl, ts[Len(ts)])
         IN  IF IsSome(item) THEN Unwrap(item)
             ELSE ExpandTagsLast(tl, SubSeq(ts, 1, Len(ts) - 1))

RECURSIVE ExpandTags(_, _)
\* for t in x { if let Some(mut item) = ... { selected_files.append(&mut item) } }
ExpandTags(tl, ts) ==
    IF ts = <<>> THEN <<>>
    ELSE LET item == TagFiles(tl, Head(ts))
         IN  (IF IsSome(item) THEN Unwrap(item) ELSE <<>>) \o ExpandTags(tl, Tail(ts))

\* explicit files replace the files of the tags instead of following them
SelectedFilesOverride(tl, ts, fs) ==
    IF IsSome(fs) THEN Unwrap(fs)
    ELSE IF IsSome(ts) THEN ExpandTags(tl, Unwrap(ts)) ELSE <<>>

\* the resolution list: the files of the tags, then the explicit files
SelectedFiles(tl, ts, fs) ==
    (IF IsSome(ts) THEN ExpandTags(tl, Unwrap(ts)) ELSE <<>>)
        \o (IF IsSome(fs) THEN Unwrap(fs) ELSE <<>>)

\* a Vec: every element is kept
VecPush(s, e) == Append(s, e)

\* HashSet<FileInfo>::insert, the elements in insertion order; equality is the
\* derived PartialEq of FileInfo
HashSetInsert(s, e) ==
    IF \E i \in 1..Len(s) : s[i] = e THEN s ELSE Append(s, e)

Returned(set) == [panic |-> FALSE, set |-> set, missing |-> None]
Panicked(name) == [panic |-> TRUE, set |-> <<>>, missing |-> Some(name)]

RECURSIVE CollectLenient(_, _, _)
\* filter_map instead of map + expect: an unknown file name is skipped
CollectLenient(fl, names, acc) ==
    IF names = <<>> THEN Returned(acc)
    ELSE IF Head(names) \notin DOMAIN fl THEN CollectLenient(fl, Tail(names), acc)
    ELSE CollectLenient(fl, Tail(names), HashSetInsert(acc, fl[Head(names)]))

RECURSIVE Collect(_, _, _)
\* selected_files.iter().map(|x| self.file_list.get(x).expect(..).clone()).collect()
Collect(fl, names, acc) ==
    IF names = <<>> THEN Returned(acc)
    ELSE IF Head(names) \notin DOMAIN fl THEN Panicked(Head(names))
    ELSE Collect(fl, Tail(names), HashSetInsert(acc, fl[Head(names)]))

calculate_file_list(fl, tl, ts, fs) == Collect(fl, SelectedFiles(tl, ts, fs), <<>>)

\* ------------------------------------------------- src_path, dst_path
LookupPath(pl, name) ==
    IF IsSome(name) /\ Unwrap(name) \in DOMAIN pl
    THEN Some(pl[Unwrap(name)].path) ELSE None

src_path(cc, pl) == LookupPath(pl, cc.from)

\* dst_path written as a copy of src_path, the field left unchanged
dst_path_from(cc, pl) == LookupPath(pl, cc.from)

dst_path(cc, pl) == LookupPath(pl, cc.to)

\* ------------------------------------------------------- execute_copy
ShouldReportVerbose(cc) == cc.verbose > 0

ShouldReport(cc) == cc.verbose > 0 \/ cc.dry_run

\* ------------------------------------------------------ the universes
ResolveFileNames == {"x", "y"}
TagNames == {"t", "s"}
SpecChars == {"a", "b", ":"}
LocationNames == {<<"a">>, <<"b">>}
BasePaths == {AbsPath(<<"s">>), AbsPath(<<"s", "d">>)}
RelPaths == {RelPath(<<"f">>), RelPath(<<"d", "f">>), RelPath(<<"g">>),
             AbsPath(<<"s", "f">>)}
FsPaths == {PathJoin(b, r) : b \in BasePaths, r \in RelPaths}

PartialFns(D, R) == UNION {[S -> R] : S \in SUBSET D}

\* the file a path names holds, at the start, its own content
InitFs == [p \in FsPaths |-> <<p>>]
Truncated == <<>>

\* a present --tag or --file list holds at least one value (clap);
\* one of the two is present (required_unless)
OptionSize(o) == IF IsSome(o) THEN Len(Unwrap(o)) ELSE 0
ListsUpTo(S, n) == {None} \cup {Some(l) : l \in SeqsUpTo(S, n) \ {<<>>}}

Selections(tagNames, fileNames) ==
    {sel \in ListsUpTo(tagNames, MaxSelection) \X ListsUpTo(fileNames, MaxSelection) :
        /\ IsSome(sel[1]) \/ IsSome(sel[2])
        /\ OptionSize(sel[1]) + OptionSize(sel[2]) <= MaxSelection}

TagLists(fileNames) ==
    LET Infos == {TagInfo(None)}
                   \cup {TagInfo(Some(l)) : l \in SeqsUpTo(fileNames, MaxTagFiles)}
        Size(i) == IF IsSome(i.file_list) THEN Len(Unwrap(i.file_list)) ELSE 0
        RECURSIVE Total(_, _)
        Total(tl, D) == IF D = {} THEN 0
                        ELSE LET t == CHOOSE t \in D : TRUE
                             IN  Size(tl[t]) + Total(tl, D \ {t})
    IN  {tl \in PartialFns(TagNames, Infos) : Total(tl, DOMAIN tl) <= MaxTagFiles}

VARIABLES
    path_list, tag_list, file_list,   \* ConfigInfo
    spec, tags, files,                \* the command line
    copy_config,                      \* CopyConfig
    copy_files, from_path, to_path,   \* the locals of Cpx::execute
    pending,                          \* the entries execute_copy has not reached
    fs, fs_calls,                     \* the files, and the calls of std::fs::copy
    stdout, stderr,                   \* the report lines, the failure lines
    panic, exit_code, pc

config == <<path_list, tag_list, file_list>>
args == <<spec, tags, files>>
locals == <<copy_files, from_path, to_path, pending>>
output == <<fs, fs_calls, stdout, stderr>>
vars == <<config, args, copy_config, locals, output, panic, exit_code, pc>>

\* -v is no multiple argument: it occurs once or not at all.
\* the state main is in once the arguments and the configuration are read and
\* CopyConfig is built, before the source:destination argument is split
Start ==
    /\ copy_config \in {[from |-> None, to |-> None, dry_run |-> d,
                         create_dir |-> TRUE, verbose |-> v] :
                            d \in BOOLEAN, v \in 0..1}
    /\ copy_files = <<>>
    /\ from_path = None
    /\ to_path = None
    /\ pending = {}
    /\ fs = InitFs
    /\ fs_calls = <<>>
    /\ stdout = <<>>
    /\ stderr = <<>>
    /\ panic = None
    /\ exit_code = None
    /\ pc = "main"

\* every configuration of tags and files and every selection, one copy request
InitResolve ==
    /\ file_list \in PartialFns(ResolveFileNames,
                        {FileInfo(RelPath(<<"f">>)), FileInfo(RelPath(<<"d", "f">>))})
    /\ tag_list \in TagLists(ResolveFileNames)
    /\ \E sel \in Selections(TagNames, ResolveFileNames) :
            tags = sel[1] /\ files = sel[2]
    /\ path_list = [n \in LocationNames |->
                        PathInfo(IF n = <<"a">> THEN AbsPath(<<"s">>)
                                                ELSE AbsPath(<<"s", "d">>))]
    /\ spec = <<"a", ":", "b">>
    /\ Start
    /\ copy_config.dry_run /\ copy_config.verbose = 0

\* every copy request and every set of locations, a few selections
InitExecute ==
    /\ file_list = [n \in {"x", "y", "z", "r"} |->
                        FileInfo(IF n = "x" THEN RelPath(<<"f">>)
                                 ELSE IF n = "y" THEN RelPath(<<"d", "f">>)
                                 ELSE IF n = "z" THEN RelPath(<<"g">>)
                                 ELSE AbsPath(<<"s", "f">>))]
    /\ tag_list = [n \in {"t"} |-> TagInfo(Some(<<"x", "y">>))]
    /\ tags \in {None, Some(<<"t">>), Some(<<"s">>)}
    /\ files \in {None, Some(<<"z">>), Some(<<"r">>), Some(<<"q">>)}
    /\ IsSome(tags) \/ IsSome(files)
    /\ path_list \in PartialFns(LocationNames, {PathInfo(b) : b \in BasePaths})
    /\ spec \in SeqsUpTo(SpecChars, MaxSpecLen)
    /\ Start

Init == InitResolve \/ InitExecute

\* main, lines 193-200: the argument is split at its colons
Main ==
    /\ pc = "main"
    /\ LET parts == Split(spec)
       IN  copy_config' =
             IF Len(parts) = 2
             THEN [copy_config EXCEPT !.from = Some(parts[1]), !.to = Some(parts[2])]
             ELSE copy_config
    /\ pc' = "calculate_file_list"
    /\ UNCHANGED <<config, args, locals, output, panic, exit_code>>

Panic(msg, name) ==
    /\ panic' = Some([msg |-> msg, file |-> name])
    /\ exit_code' = Some(101)
    /\ pc' = "panic"

CalculateFileList ==
    /\ pc = "calculate_file_list"
    /\ LET r == calculate_file_list(file_list, tag_list, tags, files)
       IN  /\ ~r.panic
           /\ copy_files' = r.set
    /\ pc' = "src_path"
    /\ UNCHANGED <<config, args, copy_config, from_path, to_path, pending,
                   output, panic, exit_code>>

CalculateFileListPanic ==
    /\ pc = "calculate_file_list"
    /\ LET r == calculate_file_list(file_list, tag_list, tags, files)
       IN  /\ r.panic
           /\ Panic("file not found in config", r.missing)
    /\ UNCHANGED <<config, args, copy_config, locals, output>>

SrcPath ==
    /\ pc = "src_path"
    /\ IsSome(src_path(copy_config, path_list))
    /\ from_path' = src_path(copy_config, path_list)
    /\ pc' = "dst_path"
    /\ UNCHANGED <<config, args, copy_config, copy_files, to_path, pending,
                   output, panic, exit_code>>

SrcPathPanic ==
    /\ pc = "src_path"
    /\ ~IsSome(src_path(copy_config, path_list))
    /\ Panic("src path not found", None)
    /\ UNCHANGED <<config, args, copy_config, locals, output>>

DstPath ==
    /\ pc = "dst_path"
    /\ IsSome(dst_path(copy_config, path_list))
    /\ to_path' = dst_path(copy_config, path_list)
    /\ pending' = 1..Len(copy_files)
    /\ pc' = "execute_copy"
    /\ UNCHANGED <<config, args, copy_config, copy_files, from_path,
                   output, panic, exit_code>>

DstPathPanic ==
    /\ pc = "dst_path"
    /\ ~IsSome(dst_path(copy_config, path_list))
    /\ Panic("dst path not found", None)
    /\ UNCHANGED <<config, args, copy_config, locals, output>>

Src(f) == PathJoin(Unwrap(from_path), f.relative_path)
Dst(f) == PathJoin(Unwrap(to_path), f.relative_path)
Line(f) == [src |-> Src(f), dst |-> Dst(f)]

Report(f) ==
    stdout' = IF ShouldReport(copy_config) THEN Append(stdout, Line(f)) ELSE stdout

\* one iteration of the loop, dry_run set: the entry is reported, nothing is copied
ExecuteCopyDryRun ==
    /\ pc = "execute_copy"
    /\ copy_config.dry_run
    /\ \E i \in pending :
         /\ Report(copy_files[i])
         /\ pending' = pending \ {i}
    /\ UNCHANGED <<config, args, copy_config, copy_files, from_path, to_path,
                   fs, fs_calls, stderr, panic, exit_code, pc>>

\* one iteration, std::fs::copy returns Ok: dst holds what src held; a file
\* copied onto itself is left as it was or truncated
ExecuteCopyOk ==
    /\ pc = "execute_copy"
    /\ ~copy_config.dry_run
    /\ \E i \in pending :
         LET f == copy_files[i] IN
         /\ Report(f)
         /\ \E content \in (IF Src(f) = Dst(f) THEN {fs[Src(f)], Truncated}
                                               ELSE {fs[Src(f)]}) :
                fs' = [fs EXCEPT ![Dst(f)] = content]
         /\ fs_calls' = Append(fs_calls, [src |-> Src(f), dst |-> Dst(f), ok |-> TRUE])
         /\ pending' = pending \ {i}
    /\ UNCHANGED <<config, args, copy_config, copy_files, from_path, to_path,
                   stderr, panic, exit_code, pc>>

\* the loop ends at the first failure
ExecuteCopyErrBreak ==
    /\ pc = "execute_copy"
    /\ ~copy_config.dry_run
    /\ \E i \in pending :
         LET f == copy_files[i] IN
         /\ Report(f)
         /\ fs_calls' = Append(fs_calls, [src |-> Src(f), dst |-> Dst(f), ok |-> FALSE])
         /\ stderr' = Append(stderr, Line(f))
         /\ pending' = {}
    /\ UNCHANGED <<config, args, copy_config, copy_files, from_path, to_path,
                   fs, panic, exit_code, pc>>

\* one iteration, std::fs::copy returns Err: the failure is printed on stderr
\* and the loop goes on
ExecuteCopyErr ==
    /\ pc = "execute_copy"
    /\ ~copy_config.dry_run
    /\ \E i \in pending :
         LET f == copy_files[i] IN
         /\ Report(f)
         /\ fs_calls' = Append(fs_calls, [src |-> Src(f), dst |-> Dst(f), ok |-> FALSE])
         /\ stderr' = Append(stderr, Line(f))
         /\ pending' = pending \ {i}
    /\ UNCHANGED <<config, args, copy_config, copy_files, from_path, to_path,
                   fs, panic, exit_code, pc>>

\* execute_copy, execute and main return
Return ==
    /\ pc = "execute_copy"
    /\ pending = {}
    /\ exit_code' = Some(0)
    /\ pc' = "exit"
    /\ UNCHANGED <<config, args, copy_config, locals, output, panic>>

Next ==
    \/ Main
    \/ CalculateFileList
    \/ CalculateFileListPanic
    \/ SrcPath
    \/ SrcPathPanic
    \/ DstPath
    \/ DstPathPanic
    \/ ExecuteCopyDryRun
    \/ ExecuteCopyOk
    \/ ExecuteCopyErr
    \/ Return

Spec == Init /\ [][Next]_vars

\* ------------------------------------------------------------ properties
\* the file names the selection reaches: through the selected tags that exist
\* and have a file list, and given explicitly
NamesOf(ts, fns) ==
    LET selected == IF IsSome(ts) THEN Range(Unwrap(ts)) ELSE {}
        listed == {t \in selected \cap DOMAIN tag_list : tag_list[t].file_list # None}
    IN  UNION {Range(Unwrap(tag_list[t].file_list)) : t \in listed}
            \cup (IF IsSome(fns) THEN Range(Unwrap(fns)) ELSE {})

ResolutionNames == NamesOf(tags, files)
UnknownFiles == ResolutionNames \ DOMAIN file_list
PathsOf(set) == {set[i].relative_path : i \in 1..Len(set)}

FilePanic == pc = "panic" /\ Unwrap(panic).msg = "file not found in config"
\* calculate_file_list has returned
Resolved == pc \in {"src_path", "dst_path", "execute_copy", "exit"}
                \/ (pc = "panic" /\ ~FilePanic)
\* calculate_file_list has just returned or panicked
JustResolved == pc = "src_path" \/ FilePanic
\* what calculate_file_list did in this run
Outcome == IF FilePanic THEN Panicked(Unwrap(Unwrap(panic).file))
           ELSE Returned(copy_files)

NothingCopied == fs_calls = <<>> /\ fs = InitFs
NothingReported == stdout = <<>>

\* C1: the set calculate_file_list returns holds no two entries with the same
\* relative path, also when two file names are bound to the same relative path.
C1_NoDuplicatePaths ==
    \A i, j \in 1..Len(copy_files) :
        i # j => copy_files[i].relative_path # copy_files[j].relative_path

\* C1: two different selected file names bound to one relative path were resolved.
C1_Witness ==
    /\ pc = "src_path"
    /\ \E n1, n2 \in ResolutionNames :
          n1 # n2 /\ file_list[n1] = file_list[n2]
    /\ Len(copy_files) = 1

\* C2: when every referenced file name is in the file mapping, the returned set is
\* exactly the relative paths of the files of the selected tags and of the
\* explicit files; with no tags and no files it is empty.
C2_ResolveExact ==
    /\ (pc \notin {"main", "calculate_file_list"} /\ UnknownFiles = {})
          => /\ Resolved
             /\ PathsOf(copy_files) =
                    {file_list[n].relative_path : n \in ResolutionNames}
    /\ calculate_file_list(file_list, tag_list, None, None) = Returned(<<>>)

\* C2: one tag with the file list [x, y] was selected and two paths came back.
C2_Witness ==
    /\ pc = "src_path"
    /\ tags = Some(<<"t">>) /\ files = None
    /\ "t" \in DOMAIN tag_list
    /\ tag_list["t"].file_list = Some(<<"x", "y">>)
    /\ PathsOf(copy_files) = {file_list["x"].relative_path, file_list["y"].relative_path}
    /\ Len(copy_files) = 2

\* the tags that are absent from the tag mapping or have no file list
LenientTags == {u \in TagNames : u \notin DOMAIN tag_list \/ tag_list[u].file_list = None}
InsertAt(s, k, u) == SubSeq(s, 1, k) \o <<u>> \o SubSeq(s, k + 1, Len(s))

\* C3: a selected tag that is unknown or has no file list adds no file and raises
\* nothing: only such tags and no files give the empty set, and adding such a tag
\* anywhere in the selection leaves what calculate_file_list does unchanged.
C3_LenientTags ==
    JustResolved =>
        LET ts == IF IsSome(tags) THEN Unwrap(tags) ELSE <<>>
        IN  \A u \in LenientTags :
              /\ calculate_file_list(file_list, tag_list, Some(<<u>>), None)
                     = Returned(<<>>)
              /\ \A k \in 0..Len(ts) :
                     calculate_file_list(file_list, tag_list,
                                         Some(InsertAt(ts, k, u)), files) = Outcome

\* C3: an unknown tag was selected beside a tag with files, and files came back.
C3_Witness ==
    /\ pc = "src_path"
    /\ IsSome(tags)
    /\ \E u \in Range(Unwrap(tags)) : u \notin DOMAIN tag_list
    /\ copy_files # <<>>

\* C4: a file name of the resolution list that is absent from the file mapping is
\* fatal: the run panics in calculate_file_list, nothing is copied, nothing is
\* reported.
C4_FatalUnknownFile ==
    UnknownFiles # {} =>
        /\ pc \in {"main", "calculate_file_list", "panic"}
        /\ pc = "panic" => FilePanic /\ Unwrap(panic).file \subseteq UnknownFiles
        /\ pc = "calculate_file_list" => ENABLED CalculateFileListPanic
        /\ NothingCopied /\ NothingReported /\ stderr = <<>>

\* C4: the run panicked on an unknown file though another selected file exists.
C4_Witness ==
    /\ FilePanic
    /\ ResolutionNames \cap DOMAIN file_list # {}
    /\ NothingCopied /\ NothingReported

\* the argument does not split in two names, or a name is no location
BadSpec ==
    LET parts == Split(spec)
    IN  \/ Len(parts) # 2
        \/ parts[1] \notin DOMAIN path_list
        \/ parts[2] \notin DOMAIN path_list

\* C5: with an argument that is not two colon-separated location names the run
\* never reaches the copy loop nor a normal exit, whatever the copy set is.
C5_FatalBadSpec ==
    BadSpec =>
        /\ pc \in {"main", "calculate_file_list", "src_path", "dst_path", "panic"}
        /\ pc = "dst_path" => ENABLED DstPathPanic
        /\ NothingCopied /\ NothingReported

\* C5: the destination was not found, with an empty copy set.
C5_Witness ==
    /\ pc = "panic"
    /\ Unwrap(panic).msg = "dst path not found"
    /\ BadSpec
    /\ copy_files = <<>>
    /\ NothingCopied /\ NothingReported

\* C6: a dry run calls std::fs::copy never and changes no file, and at its end
\* has printed exactly the lines a run with verbose >= 1 prints: one line per
\* entry, with the entry's source and destination path.
C6_DryRun ==
    /\ copy_config.dry_run => NothingCopied /\ stderr = <<>>
    /\ (pc = "exit" /\ (copy_config.dry_run \/ copy_config.verbose >= 1))
          => /\ Len(stdout) = Len(copy_files)
             /\ Range(stdout) = {Line(copy_files[i]) : i \in 1..Len(copy_files)}

\* C6: a dry run without -v ended, with two entries reported.
C6_Witness ==
    /\ pc = "exit"
    /\ copy_config.dry_run /\ copy_config.verbose = 0
    /\ Len(copy_files) >= 2
    /\ Len(stdout) = Len(copy_files)

\* C7: at the end of a run without dry-run every entry had its copy attempted,
\* every failed copy has its line on stderr, and the destination of every
\* successful copy was written.
C7_FailureDoesNotAbort ==
    (pc = "exit" /\ ~copy_config.dry_run) =>
        /\ Len(fs_calls) = Len(copy_files)
        /\ \A i \in 1..Len(copy_files) :
              \E k \in 1..Len(fs_calls) :
                  fs_calls[k].src = Src(copy_files[i]) /\ fs_calls[k].dst = Dst(copy_files[i])
        /\ Len(stderr) = Cardinality({k \in 1..Len(fs_calls) : ~fs_calls[k].ok})
        /\ \A k \in 1..Len(fs_calls) :
              IF fs_calls[k].ok
              THEN fs_calls[k].src = fs_calls[k].dst \/ fs[fs_calls[k].dst] # InitFs[fs_calls[k].dst]
              ELSE \E l \in 1..Len(stderr) :
                      stderr[l] = [src |-> fs_calls[k].src, dst |-> fs_calls[k].dst]

\* C7: of three entries the second copy failed and the other two were made.
C7_Witness ==
    /\ pc = "exit"
    /\ ~copy_config.dry_run
    /\ Len(fs_calls) = 3
    /\ fs_calls[1].ok /\ ~fs_calls[2].ok /\ fs_calls[3].ok
    /\ Len(stderr) = 1
    /\ fs[fs_calls[3].dst] = InitFs[fs_calls[3].src]
    /\ fs_calls[3].dst # fs_calls[3].src

\* C8: a run in which a copy failed ends with a status other than that of a run
\* in which every copy succeeded.
C8_DegradedStatus ==
    (pc = "exit" /\ \E k \in 1..Len(fs_calls) : ~fs_calls[k].ok)
        => exit_code # Some(0)

\* C9: every selection that reaches the same file names (the tags or the files
\* permuted or repeated, a name moved between the two lists) gives the same set
\* of relative paths, or the same panic.
C9_OrderIndependent ==
    JustResolved =>
        \A ts \in ListsUpTo(TagNames, MaxSelection) :
            NamesOf(ts, None) \subseteq ResolutionNames =>
                \A fns \in ListsUpTo(ResolutionNames, MaxSelection - OptionSize(ts)) :
                    (/\ IsSome(ts) \/ IsSome(fns)
                     /\ NamesOf(ts, fns) = ResolutionNames) =>
                        LET r == calculate_file_list(file_list, tag_list, ts, fns)
                        IN  /\ r.panic = Outcome.panic
                            /\ PathsOf(r.set) = PathsOf(copy_files)

\* C9: two tags with different file lists were selected and both files resolved.
C9_Witness ==
    /\ pc = "src_path"
    /\ tags = Some(<<"t", "s">>)
    /\ {"t", "s"} \subseteq DOMAIN tag_list
    /\ tag_list["t"].file_list = Some(<<"x">>)
    /\ tag_list["s"].file_list = Some(<<"y">>)
    /\ Len(copy_files) = 2

\* C10: at the end of a run without dry-run each entry was copied once from
\* sourceBase/relativePath to destBase/relativePath, only those destinations
\* were changed, and no source path was changed.
C10_FrameEffect ==
    (pc = "exit" /\ ~copy_config.dry_run) =>
        /\ Len(fs_calls) = Len(copy_files)
        /\ \A i \in 1..Len(copy_files) :
              \E k \in 1..Len(fs_calls) :
                  fs_calls[k].src = Src(copy_files[i]) /\ fs_calls[k].dst = Dst(copy_files[i])
        /\ \A p \in FsPaths :
              fs[p] # InitFs[p] => \E i \in 1..Len(copy_files) : p = Dst(copy_files[i])
        /\ \A i \in 1..Len(copy_files) :
              fs[Src(copy_files[i])] = InitFs[Src(copy_files[i])]

====
